---- MODULE Spec2Model ----
(***************************************************************************)
(* State-machine model of the ZenC workload generators.  Every program of  *)
(* the repository is a standalone main(); a behaviour of the model is one  *)
(* run of one program, selected by `prog` in the initial state.  Each OS   *)
(* call whose result the code tests (malloc, pthread_create, open, fopen,  *)
(* fwrite, fork, socket, connect) returns a nondeterministic outcome.      *)
(***************************************************************************)
EXTENDS Integers, Sequences, FiniteSets, TLC

\* ------------------------------------------------------------------ bounds
\* Longest command-line argument (in characters) given to the two programs
\* that read argv[1].
MaxArgLen == 2
\* The unbounded loops (memory hog, file writer, fork bomb, network test)
\* are explored for at most this many iterations.
MaxLoop == 6

\* --------------------------------------------------------- program constants
MB == 1024 * 1024
INT_MAX == (2^30 - 1) * 2 + 1
INT_MIN == -INT_MAX - 1

\* fork_bomb_gradual.c
MAX_THREADS == 80
GradualPhase1 == 5
GradualSustain == 10

\* memory_leak_progressive.c
LEAK_SLOTS == 30
LeakIterations == 25
LeakUnit == 5
LeakSustain == 5

\* resource_exhaustion_combo.c
COMBO_SLOTS == 30
COMBO_MAX_THREADS == 60
MAX_FILES == 100
ComboIterations == 20
ComboUnit == 8
ComboBurst == 3
ComboSustain == 8

\* ml_test_pattern.c
PATTERN_SLOTS == 20

\* io_storm_writer.c, file_writer.c
CHUNK_SIZE == 1 * MB
StormNormal == 3
StormIterations == 150

\* memory_hog.c
HOG_CHUNK_MB == 10

Programs ==
    {"gradual", "leak", "combo", "io_storm", "file_writer", "memory_hog",
     "fork_bomb", "network_test", "ml_test_pattern", "cpu_spike"}

\* cpu_spike_attack.c: the loop bounds of the three phases.
SpikeBenign == 5
SpikeAttack == 15
SpikeCooldown == 3

\* clock() counts processor time in ticks.  The model counts in coarse
\* ticks: CLOCKS_PER_SEC of them make a second, and one pass of the inner
\* loop of consume_cpu uses between 1 and MaxBurst of them.
CLOCKS_PER_SEC == 4
MaxBurst == 2

\* ------------------------------------------------------------------- atoi
\* A command-line argument is a sequence of characters.
Digits == {"0", "1", "2", "3", "4", "5", "6", "7", "8", "9"}

DigitVal(c) ==
    CASE c = "0" -> 0 [] c = "1" -> 1 [] c = "2" -> 2 [] c = "3" -> 3
      [] c = "4" -> 4 [] c = "5" -> 5 [] c = "6" -> 6 [] c = "7" -> 7
      [] c = "8" -> 8 [] c = "9" -> 9

\* All sequences over `alphabet` of length at most n.
RECURSIVE StringsUpTo(_, _)
StringsUpTo(alphabet, n) ==
    IF n = 0 THEN {<<>>}
    ELSE LET shorter == StringsUpTo(alphabet, n - 1)
         IN  shorter \cup {Append(s, c) : s \in shorter, c \in alphabet}

RECURSIVE SkipSpace(_)
SkipSpace(s) == IF s # <<>> /\ Head(s) = " " THEN SkipSpace(Tail(s)) ELSE s

\* The value of the longest prefix of decimal digits of s, continuing acc;
\* Overflow once the value no longer fits an int.
Overflow == 0 - 1

RECURSIVE DigitPrefix(_, _)
DigitPrefix(s, acc) ==
    IF s # <<>> /\ Head(s) \in Digits
    THEN IF acc > (INT_MAX - DigitVal(Head(s))) \div 10
         THEN Overflow
         ELSE DigitPrefix(Tail(s), 10 * acc + DigitVal(Head(s)))
    ELSE acc

\* The value atoi converts: optional white space, an optional sign, then
\* digits; anything else ends the number (no digits: 0).
AtoiValue(s) ==
    LET t == SkipSpace(s)
        signed == t # <<>> /\ Head(t) \in {"-", "+"}
        mag == DigitPrefix(IF signed THEN Tail(t) ELSE t, 0)
    IN  IF mag = Overflow THEN Overflow
        ELSE IF t # <<>> /\ Head(t) = "-" THEN 0 - mag ELSE mag

\* atoi's behaviour is undefined when the value is not representable as an
\* int: any int may come back.
IntSamples == {INT_MIN, -1, 0, 1, 5, 80, 81, INT_MAX}

atoi(s) ==
    LET t == SkipSpace(s)
        signed == t # <<>> /\ Head(t) \in {"-", "+"}
    IN  IF DigitPrefix(IF signed THEN Tail(t) ELSE t, 0) = Overflow
        THEN IntSamples
        ELSE {AtoiValue(s)}

\* An argument whose value no int holds.
HugeArg == <<"8", "8", "8", "8", "8", "8", "8", "8", "8", "8", "8">>

\* ------------------------------------------------------------------- state
\* Pointer values: Uninit is the indeterminate content of a local array slot
\* that was never assigned, Null is NULL, a positive value is a live block
\* (identified by its size in bytes).
Uninit == 0 - 1
Null == 0

VARIABLES
    prog,             \* which program this run is
    pc,               \* position of main()
    i,                \* the loop variable of the loop main() is in
    exit_code,        \* -1 while running, else the value main() returned
    failed,           \* <<operation, phase>> of the OS calls that returned failure
    reported,         \* failure messages printed
    attempts,         \* resource-acquisition calls made so far
    max_threads,      \* fork_bomb_gradual: configured maximum
    created_threads,  \* fork_bomb_gradual: successful pthread_create calls
    thread_ids,       \* fork_bomb_gradual: heap array: null or not, entries written
    max_index,        \* highest index used on threads[] / thread_ids[] (-1: none)
    threads,          \* indices of threads[] holding a created thread's handle
    keep_running,     \* the shared shutdown flag
    joined,           \* indices of threads[] passed to pthread_join, in order
    returned,         \* indices of threads[] whose worker function has returned
    allocations,      \* memory_leak_progressive: void* allocations[30]
    total_allocated,  \* memory_leak_progressive: bytes allocated
    alloc_size,       \* size of the latest allocation request
    freed,            \* slots whose live block was passed to free, in order
    wild_frees,       \* calls of free on an indeterminate pointer
    memory_leaks,     \* combo: void* memory_leaks[30]
    leak_count,       \* combo
    thread_count,     \* combo
    file_count,       \* combo
    open_fds,         \* combo: int open_fds[MAX_FILES]
    closed,           \* combo: slots of open_fds[] passed to close, in order
    disk,             \* files that exist
    files_created,    \* files this run created
    buffer,           \* io_storm, file_writer: "none", "held", "freed"
    fp,               \* io_storm, file_writer: "none", "open", "closed"
    total_written,    \* io_storm: bytes counted in the attack phase
    pattern,          \* ml_test_pattern: selected pattern
    ptrs,             \* ml_test_pattern case 3: void* ptrs[20]
    mem_ptr,          \* ml_test_pattern case 5
    cpu_bursts,       \* ml_test_pattern: calls of cpu_burst
    argc,             \* ml_test_pattern: 1 with no argument, 2 with one
    argv1,            \* ml_test_pattern: the argument, a sequence of characters
    printed_total,    \* ml_test_pattern case 3: the total of the last status line, in MB
    total,            \* memory_hog, file_writer: bytes
    count,            \* memory_hog, file_writer, fork_bomb: iterations counted
    children,         \* fork_bomb: live child processes
    child_pending,    \* fork_bomb: live children that have not yet tested pid
    forked,           \* fork_bomb: forks that succeeded in the parent
    tree_depth,       \* fork_bomb: depth of the process tree below the parent
    attempt,          \* network_test
    sock,             \* network_test: open sockets
    clock_now,        \* cpu_spike: processor time used so far, what clock() returns
    burn_end,         \* cpu_spike: consume_cpu's end
    benign_done,      \* cpu_spike: finished iterations of phase 1
    attack_done,      \* cpu_spike: finished iterations of phase 2
    cooldown_done     \* cpu_spike: finished iterations of phase 3

commonVars == <<prog, pc, i, exit_code, failed, reported, attempts>>
gradVars == <<max_threads, created_threads, thread_ids, max_index>>
threadVars == <<threads, keep_running, joined, returned>>
leakVars == <<allocations, total_allocated>>
memVars == <<alloc_size, freed, wild_frees>>
comboVars == <<memory_leaks, leak_count, thread_count, file_count, open_fds, closed>>
fileVars == <<disk, files_created>>
ioVars == <<buffer, fp, total_written>>
patVars == <<pattern, ptrs, mem_ptr, cpu_bursts, argc, argv1, printed_total>>
unbVars == <<total, count, children, attempt, sock>>
forkVars == <<child_pending, forked, tree_depth>>
spikeVars == <<clock_now, burn_end, benign_done, attack_done, cooldown_done>>
vars == <<commonVars, gradVars, threadVars, leakVars, memVars, comboVars,
          fileVars, ioVars, patVars, unbVars, forkVars, spikeVars>>

\* What each program leaves alone.
notGradual ==
    <<leakVars, memVars, comboVars, fileVars, ioVars, patVars, unbVars, forkVars,
      spikeVars>>
notLeak ==
    <<gradVars, threadVars, comboVars, fileVars, ioVars, patVars, unbVars, forkVars,
      spikeVars>>
notCombo ==
    <<gradVars, leakVars, ioVars, patVars, unbVars, forkVars,
      spikeVars>>
notStorm ==
    <<gradVars, threadVars, leakVars, memVars, comboVars, patVars, unbVars, forkVars,
      spikeVars>>
notPattern ==
    <<gradVars, threadVars, leakVars, comboVars, fileVars, ioVars, unbVars, forkVars,
      spikeVars>>
notFork == <<gradVars, threadVars, leakVars, memVars, comboVars, patVars, spikeVars>>
notUnbounded == <<notFork, forkVars>>
notSpike ==
    <<gradVars, threadVars, leakVars, memVars, comboVars, fileVars, ioVars, patVars,
      unbVars, forkVars>>

Init ==
    /\ prog \in Programs
    /\ pc = "start"
    /\ i = 0
    /\ exit_code = -1
    /\ failed = {}
    /\ reported = {}
    /\ attempts = 0
    /\ max_threads = MAX_THREADS
    /\ created_threads = 0
    /\ thread_ids = [null |-> FALSE, vals |-> <<>>]
    /\ max_index = -1
    /\ threads = {}
    /\ keep_running = 1
    /\ joined = <<>>
    /\ returned = {}
    /\ allocations = [k \in 0..(LEAK_SLOTS - 1) |-> Uninit]
    /\ total_allocated = 0
    /\ alloc_size = 0
    /\ freed = <<>>
    /\ wild_frees = 0
    /\ memory_leaks = [k \in 0..(COMBO_SLOTS - 1) |-> Uninit]
    /\ leak_count = 0
    /\ thread_count = 0
    /\ file_count = 0
    /\ open_fds = [k \in 0..(MAX_FILES - 1) |-> 0]
    /\ closed = <<>>
    /\ disk = {}
    /\ files_created = {}
    /\ buffer = "none"
    /\ fp = "none"
    /\ total_written = 0
    /\ pattern = 1
    /\ ptrs = [k \in 0..(PATTERN_SLOTS - 1) |-> Uninit]
    /\ mem_ptr = Null
    /\ cpu_bursts = 0
    /\ argc = 1
    /\ argv1 = <<>>
    /\ printed_total = 0
    /\ total = 0
    /\ count = 0
    /\ children = 0
    /\ child_pending = 0
    /\ forked = 0
    /\ tree_depth = 0
    /\ attempt = 0
    /\ sock = 0
    /\ clock_now = 0
    /\ burn_end = 0
    /\ benign_done = 0
    /\ attack_done = 0
    /\ cooldown_done = 0

\* ------------------------------------------------- fork_bomb_gradual.c
GradualAlphabet == {"-", " ", "0", "1", "8", "x"}
GradualArgs == (StringsUpTo(GradualAlphabet, MaxArgLen) \ {<<>>}) \cup {HugeArg}

\* Clamp without its upper limit (the first if missing).
ClampNoUpper(n) == IF n < GradualPhase1 THEN GradualPhase1 ELSE n

\* if (max_threads > MAX_THREADS) ...; if (max_threads < 5) ...
Clamp(n) ==
    LET hi == IF n > MAX_THREADS THEN MAX_THREADS ELSE n
    IN  IF hi < GradualPhase1 THEN GradualPhase1 ELSE hi

\* max_threads = MAX_THREADS; if (argc > 1) max_threads = atoi(argv[1]).
GradualParse ==
    /\ prog = "gradual" /\ pc = "start"
    /\ \/ /\ max_threads' = MAX_THREADS
          /\ pc' = "alloc_ids"
       \/ /\ \E arg \in GradualArgs : max_threads' \in atoi(arg)
          /\ pc' = "clamp"
    /\ UNCHANGED <<prog, i, exit_code, failed, reported, attempts>>
    /\ UNCHANGED <<created_threads, thread_ids, max_index, threadVars, notGradual>>

\* The two clamping statements that follow atoi.
GradualClamp ==
    /\ prog = "gradual" /\ pc = "clamp"
    /\ max_threads' = Clamp(max_threads)
    /\ pc' = "alloc_ids"
    /\ UNCHANGED <<prog, i, exit_code, failed, reported, attempts>>
    /\ UNCHANGED <<created_threads, thread_ids, max_index, threadVars, notGradual>>

\* thread_ids = malloc(max_threads * sizeof(int)); the result is not tested.
GradualAllocIds ==
    /\ prog = "gradual" /\ pc = "alloc_ids"
    /\ \/ thread_ids' = [null |-> FALSE, vals |-> <<>>] /\ UNCHANGED failed
       \/ thread_ids' = [null |-> TRUE, vals |-> <<>>] /\ failed' = failed \cup {<<"malloc", "setup">>}
    /\ pc' = "phase1"
    /\ i' = 0
    /\ UNCHANGED <<prog, exit_code, reported, attempts>>
    /\ UNCHANGED <<max_threads, created_threads, max_index, threadVars, notGradual>>

\* Where main() goes once the phase 1 loop test fails.
GradualAfterPhase1 == IF GradualPhase1 < max_threads THEN "phase2" ELSE "sustain"

\* One iteration of the phase 1 loop.  A failed pthread_create is skipped:
\* the loop goes on with the next index and created_threads is not counted.
GradualPhase1Step ==
    /\ prog = "gradual" /\ pc = "phase1"
    /\ i < GradualPhase1 /\ i < max_threads
    /\ IF thread_ids.null
       THEN \* thread_ids[i] = i + 1 writes through a null pointer
            /\ pc' = "crashed"
            /\ UNCHANGED <<i, failed, attempts, created_threads, thread_ids,
                           max_index, threads>>
       ELSE /\ thread_ids' = [thread_ids EXCEPT !.vals = Append(@, i + 1)]
            /\ max_index' = i
            /\ attempts' = attempts + 1
            /\ \/ /\ created_threads' = created_threads + 1
                  /\ threads' = threads \cup {i}
                  /\ UNCHANGED failed
               \/ /\ failed' = failed \cup {<<"pthread_create", "baseline">>}
                  /\ UNCHANGED <<created_threads, threads>>
            /\ IF i + 1 < GradualPhase1 /\ i + 1 < max_threads
               THEN i' = i + 1 /\ pc' = "phase1"
               ELSE i' = (IF GradualAfterPhase1 = "phase2" THEN GradualPhase1 ELSE 0)
                    /\ pc' = GradualAfterPhase1
    /\ UNCHANGED <<prog, exit_code, reported, max_threads, keep_running, joined, returned, notGradual>>

\* One iteration of the phase 2 loop: a failed pthread_create is reported
\* and breaks out of the loop.
GradualPhase2Step ==
    /\ prog = "gradual" /\ pc = "phase2"
    /\ i < max_threads
    /\ thread_ids' = [thread_ids EXCEPT !.vals = Append(@, i + 1)]
    /\ max_index' = i
    /\ attempts' = attempts + 1
    /\ \/ /\ created_threads' = created_threads + 1
          /\ threads' = threads \cup {i}
          /\ IF i + 1 < max_threads
             THEN i' = i + 1 /\ pc' = "phase2"
             ELSE i' = 0 /\ pc' = "sustain"
          /\ UNCHANGED <<failed, reported>>
       \/ /\ failed' = failed \cup {<<"pthread_create", "attack">>}
          /\ reported' = reported \cup {"Failed to create thread"}
          /\ i' = 0 /\ pc' = "sustain"
          /\ UNCHANGED <<created_threads, threads>>
    /\ UNCHANGED <<prog, exit_code, max_threads, keep_running, joined, returned, notGradual>>

\* One iteration of the sustain loop (print, sleep(1)).
GradualSustainStep ==
    /\ prog = "gradual" /\ pc = "sustain"
    /\ i < GradualSustain
    /\ IF i + 1 < GradualSustain
       THEN i' = i + 1 /\ pc' = "sustain"
       ELSE i' = 0 /\ pc' = "shutdown"
    /\ UNCHANGED <<prog, exit_code, failed, reported, attempts>>
    /\ UNCHANGED <<gradVars, threadVars, notGradual>>

\* keep_running = 0.
GradualShutdown ==
    /\ prog = "gradual" /\ pc = "shutdown"
    /\ keep_running' = 0
    /\ i' = 0
    /\ pc' = IF 0 < created_threads THEN "join" ELSE "free_ids"
    /\ UNCHANGED <<prog, exit_code, failed, reported, attempts>>
    /\ UNCHANGED <<gradVars, threads, joined, returned, notGradual>>

\* pthread_join(threads[i], NULL) for i < created_threads.  The call returns
\* when worker i has returned, which the worker does only after it read
\* keep_running = 0.  threads[] is a zero-initialised global; joining a slot
\* no pthread_create filled is undefined: the call returns an error or the
\* process faults.
GradualJoinStep ==
    /\ prog = "gradual" /\ pc = "join"
    /\ i < created_threads
    /\ i \in threads => keep_running = 0
    /\ joined' = Append(joined, i)
    /\ returned' = returned \cup ({i} \cap threads)
    /\ max_index' = IF i > max_index THEN i ELSE max_index
    /\ \/ /\ IF i + 1 < created_threads
             THEN i' = i + 1 /\ pc' = "join"
             ELSE i' = 0 /\ pc' = "free_ids"
       \/ /\ i \notin threads
          /\ pc' = "crashed"
          /\ UNCHANGED i
    /\ UNCHANGED <<prog, exit_code, failed, reported, attempts>>
    /\ UNCHANGED <<max_threads, created_threads, thread_ids, threads, keep_running,
                   notGradual>>

\* free(thread_ids); return 0.
GradualExit ==
    /\ prog = "gradual" /\ pc = "free_ids"
    /\ pc' = "exited"
    /\ exit_code' = 0
    /\ UNCHANGED <<prog, i, failed, reported, attempts>>
    /\ UNCHANGED <<gradVars, threadVars, notGradual>>

GradualNext ==
    \/ GradualParse \/ GradualClamp \/ GradualAllocIds \/ GradualPhase1Step
    \/ GradualPhase2Step \/ GradualSustainStep \/ GradualShutdown
    \/ GradualJoinStep \/ GradualExit

\* --------------------------------------------- memory_leak_progressive.c
\* (i + 1) * 5 * MB, evaluated in int.
LeakAllocSize(k) == (k + 1) * LeakUnit * MB

\* The printf banner; the attack loop starts at i = 0.
LeakStart ==
    /\ prog = "leak" /\ pc = "start"
    /\ pc' = "attack"
    /\ i' = 0
    /\ UNCHANGED <<prog, exit_code, failed, reported, attempts>>
    /\ UNCHANGED <<leakVars, memVars, notLeak>>

\* One iteration of the allocation loop.  A NULL from malloc is stored in
\* the slot, reported, and breaks out of the loop.
LeakAttackStep ==
    /\ prog = "leak" /\ pc = "attack"
    /\ i < LeakIterations
    /\ alloc_size' = LeakAllocSize(i)
    /\ attempts' = attempts + 1
    /\ \/ /\ allocations' = [allocations EXCEPT ![i] = alloc_size']
          /\ total_allocated' = total_allocated + alloc_size'
          /\ IF i + 1 < LeakIterations
             THEN i' = i + 1 /\ pc' = "attack"
             ELSE i' = 0 /\ pc' = "sustain"
          /\ UNCHANGED <<failed, reported>>
       \/ /\ allocations' = [allocations EXCEPT ![i] = Null]
          /\ failed' = failed \cup {<<"malloc", "attack">>}
          /\ reported' = reported \cup {"Memory allocation FAILED"}
          /\ i' = 0 /\ pc' = "sustain"
          /\ UNCHANGED total_allocated
    /\ UNCHANGED <<prog, exit_code, freed, wild_frees, notLeak>>

\* One iteration of the "sustained" loop.
LeakSustainStep ==
    /\ prog = "leak" /\ pc = "sustain"
    /\ i < LeakSustain
    /\ IF i + 1 < LeakSustain
       THEN i' = i + 1 /\ pc' = "sustain"
       ELSE i' = 0 /\ pc' = "cleanup"
    /\ UNCHANGED <<prog, exit_code, failed, reported, attempts>>
    /\ UNCHANGED <<leakVars, memVars, notLeak>>

\* The test and call of FreeSlot made from the last slot down to the first.
FreeSlotLastFirst(slots, k) ==
    LET n == Cardinality(DOMAIN slots) - 1 - k IN
    IF slots[n] = Null THEN {<<freed, wild_frees, FALSE>>}
    ELSE IF slots[n] = Uninit
    THEN {<<freed, wild_frees, FALSE>>,
          <<freed, wild_frees + 1, FALSE>>,
          <<freed, wild_frees + 1, TRUE>>}
    ELSE {<<Append(freed, n), wild_frees, FALSE>>}

\* if (slot) free(slot), for one slot of a pointer array.  A slot that was
\* never assigned holds an indeterminate value: it may read as NULL (no
\* call), or as a non-null pointer that no malloc returned, which free is
\* then called on (and the process may abort there).
\* The result is <<freed', wild_frees', crashed>>.
FreeSlot(slots, k) ==
    IF slots[k] = Null THEN {<<freed, wild_frees, FALSE>>}
    ELSE IF slots[k] = Uninit
    THEN {<<freed, wild_frees, FALSE>>,
          <<freed, wild_frees + 1, FALSE>>,
          <<freed, wild_frees + 1, TRUE>>}
    ELSE {<<Append(freed, k), wild_frees, FALSE>>}

\* One iteration of the cleanup loop, which visits all 30 slots.
LeakCleanupStep ==
    /\ prog = "leak" /\ pc = "cleanup"
    /\ i < LEAK_SLOTS
    /\ \E r \in FreeSlot(allocations, i) :
         /\ freed' = r[1]
         /\ wild_frees' = r[2]
         /\ IF r[3] THEN pc' = "crashed" /\ UNCHANGED i
            ELSE IF i + 1 < LEAK_SLOTS
            THEN i' = i + 1 /\ pc' = "cleanup"
            ELSE i' = 0 /\ pc' = "return"
    /\ UNCHANGED <<prog, exit_code, failed, reported, attempts>>
    /\ UNCHANGED <<leakVars, alloc_size, notLeak>>

\* return 0.
LeakExit ==
    /\ prog = "leak" /\ pc = "return"
    /\ pc' = "exited"
    /\ exit_code' = 0
    /\ UNCHANGED <<prog, i, failed, reported, attempts>>
    /\ UNCHANGED <<leakVars, memVars, notLeak>>

LeakNext ==
    \/ LeakStart \/ LeakAttackStep \/ LeakSustainStep \/ LeakCleanupStep
    \/ LeakExit

\* ------------------------------------------- resource_exhaustion_combo.c
\* The size computed from the zero-based count, without the + 1.
ComboAllocSizeZeroBased(n) == n * ComboUnit * MB

\* (leak_count + 1) * 8 * MB, evaluated in int.
ComboAllocSize(n) == (n + 1) * ComboUnit * MB

\* The name of the temp file opened for slot k: /tmp/exhaust_<pid>_<k>.tmp.
ComboFileName(k) == <<"exhaust", k>>

\* The banner and "Phase 1/3: Normal startup"; the attack loop starts at 0.
ComboStart ==
    /\ prog = "combo" /\ pc = "start"
    /\ pc' = "vector1"
    /\ i' = 0
    /\ UNCHANGED <<prog, exit_code, failed, reported, attempts>>
    /\ UNCHANGED <<threadVars, memVars, comboVars, fileVars, notCombo>>

\* Attack vector 1 of iteration i: on even i, one malloc.  A NULL is stored
\* in the slot and nothing else happens: no message, no break.
ComboMemory ==
    /\ prog = "combo" /\ pc = "vector1"
    /\ IF i % 2 = 0 /\ leak_count < COMBO_SLOTS
       THEN /\ alloc_size' = ComboAllocSize(leak_count)
            /\ attempts' = attempts + 1
            /\ \/ /\ memory_leaks' = [memory_leaks EXCEPT ![leak_count] = alloc_size']
                  /\ leak_count' = leak_count + 1
                  /\ UNCHANGED failed
               \/ /\ memory_leaks' = [memory_leaks EXCEPT ![leak_count] = Null]
                  /\ failed' = failed \cup {<<"malloc", "attack">>}
                  /\ UNCHANGED leak_count
       ELSE UNCHANGED <<alloc_size, attempts, memory_leaks, leak_count, failed>>
    /\ pc' = "vector2"
    /\ UNCHANGED <<prog, i, exit_code, reported, freed, wild_frees>>
    /\ UNCHANGED <<thread_count, file_count, open_fds, closed>>
    /\ UNCHANGED <<threadVars, fileVars, notCombo>>

\* for (j = 0; j < 3 && thread_count < MAX_THREADS; j++): the thread count
\* after the iterations j.., given each pthread_create's outcome.
RECURSIVE ComboSpawn(_, _, _)
ComboSpawn(tc, j, ok) ==
    IF j < ComboBurst /\ tc < COMBO_MAX_THREADS
    THEN ComboSpawn(IF ok[j] THEN tc + 1 ELSE tc, j + 1, ok)
    ELSE tc

\* The number of pthread_create calls that loop makes.
RECURSIVE ComboSpawnCalls(_, _, _)
ComboSpawnCalls(tc, j, ok) ==
    IF j < ComboBurst /\ tc < COMBO_MAX_THREADS
    THEN 1 + ComboSpawnCalls(IF ok[j] THEN tc + 1 ELSE tc, j + 1, ok)
    ELSE 0

\* Attack vector 2 of iteration i: on every third i, up to three
\* pthread_create calls; a failed one is skipped without a message.
ComboThreads ==
    /\ prog = "combo" /\ pc = "vector2"
    /\ IF i % 3 = 0 /\ thread_count < COMBO_MAX_THREADS
       THEN \E ok \in [0..(ComboBurst - 1) -> BOOLEAN] :
              LET calls == ComboSpawnCalls(thread_count, 0, ok)
              IN  /\ thread_count' = ComboSpawn(thread_count, 0, ok)
                  /\ threads' = threads \cup (thread_count..(thread_count' - 1))
                  /\ attempts' = attempts + calls
                  /\ failed' = IF thread_count' - thread_count < calls
                               THEN failed \cup {<<"pthread_create", "attack">>}
                               ELSE failed
       ELSE UNCHANGED <<thread_count, threads, attempts, failed>>
    /\ pc' = "vector3"
    /\ UNCHANGED <<prog, i, exit_code, reported, keep_running, joined, returned, memVars>>
    /\ UNCHANGED <<memory_leaks, leak_count, file_count, open_fds, closed>>
    /\ UNCHANGED <<fileVars, notCombo>>

\* Attack vector 3 of iteration i (on odd i, one open with O_CREAT; a
\* failure stores -1 in the slot, silently), then the prints and sleep(1)
\* that end the iteration.
ComboFiles ==
    /\ prog = "combo" /\ pc = "vector3"
    /\ IF i % 2 = 1 /\ file_count < MAX_FILES
       THEN /\ attempts' = attempts + 1
            /\ \/ /\ open_fds' = [open_fds EXCEPT ![file_count] = 3 + file_count]
                  /\ file_count' = file_count + 1
                  /\ disk' = disk \cup {ComboFileName(file_count)}
                  /\ files_created' = files_created \cup {ComboFileName(file_count)}
                  /\ UNCHANGED failed
               \/ /\ open_fds' = [open_fds EXCEPT ![file_count] = 0 - 1]
                  /\ failed' = failed \cup {<<"open", "attack">>}
                  /\ UNCHANGED <<file_count, disk, files_created>>
       ELSE UNCHANGED <<attempts, open_fds, file_count, disk, files_created, failed>>
    /\ IF i + 1 < ComboIterations
       THEN i' = i + 1 /\ pc' = "vector1"
       ELSE i' = 0 /\ pc' = "sustain"
    /\ UNCHANGED <<prog, exit_code, reported, memVars>>
    /\ UNCHANGED <<memory_leaks, leak_count, thread_count, closed>>
    /\ UNCHANGED <<threadVars, notCombo>>

\* The cleanup name built from file_count, as the attack loop does, instead
\* of from the loop index.
ComboUnlinkNameByCount(k) == ComboFileName(file_count)

\* The name the cleanup loop rebuilds for slot k before unlink.
ComboUnlinkName(k) == ComboFileName(k)

\* Where the cleanup goes from the loop named `from`, skipping empty loops.
ComboAfter(from) ==
    IF from = "shutdown" /\ 0 < thread_count THEN "join"
    ELSE IF from \in {"shutdown", "join"} /\ 0 < leak_count THEN "free"
    ELSE IF from \in {"shutdown", "join", "free"} /\ 0 < file_count THEN "close"
    ELSE "return"

\* One iteration of the sustain loop.
ComboSustainStep ==
    /\ prog = "combo" /\ pc = "sustain"
    /\ i < ComboSustain
    /\ IF i + 1 < ComboSustain
       THEN i' = i + 1 /\ pc' = "sustain"
       ELSE i' = 0 /\ pc' = "shutdown"
    /\ UNCHANGED <<prog, exit_code, failed, reported, attempts>>
    /\ UNCHANGED <<threadVars, memVars, comboVars, fileVars, notCombo>>

\* keep_running = 0.
ComboShutdown ==
    /\ prog = "combo" /\ pc = "shutdown"
    /\ keep_running' = 0
    /\ i' = 0
    /\ pc' = ComboAfter("shutdown")
    /\ UNCHANGED <<prog, exit_code, failed, reported, attempts>>
    /\ UNCHANGED <<threads, joined, returned, memVars, comboVars, fileVars, notCombo>>

\* pthread_join(threads[i], NULL) for i < thread_count.  The call returns
\* when worker i has returned.
ComboJoinStep ==
    /\ prog = "combo" /\ pc = "join"
    /\ i < thread_count
    /\ i \in threads => keep_running = 0
    /\ joined' = Append(joined, i)
    /\ returned' = returned \cup ({i} \cap threads)
    /\ IF i + 1 < thread_count
       THEN i' = i + 1 /\ pc' = "join"
       ELSE i' = 0 /\ pc' = ComboAfter("join")
    /\ UNCHANGED <<prog, exit_code, failed, reported, attempts>>
    /\ UNCHANGED <<threads, keep_running, memVars, comboVars, fileVars, notCombo>>

\* if (memory_leaks[i]) free(memory_leaks[i]) for i < leak_count.
ComboFreeStep ==
    /\ prog = "combo" /\ pc = "free"
    /\ i < leak_count
    /\ \E r \in FreeSlot(memory_leaks, i) :
         /\ freed' = r[1]
         /\ wild_frees' = r[2]
         /\ IF r[3] THEN pc' = "crashed" /\ UNCHANGED i
            ELSE IF i + 1 < leak_count
            THEN i' = i + 1 /\ pc' = "free"
            ELSE i' = 0 /\ pc' = ComboAfter("free")
    /\ UNCHANGED <<prog, exit_code, failed, reported, attempts, alloc_size>>
    /\ UNCHANGED <<threadVars, comboVars, fileVars, notCombo>>

\* if (open_fds[i] >= 0) { close; unlink } for i < file_count.
ComboCloseStep ==
    /\ prog = "combo" /\ pc = "close"
    /\ i < file_count
    /\ IF open_fds[i] >= 0
       THEN /\ closed' = Append(closed, i)
            /\ disk' = disk \ {ComboUnlinkName(i)}
       ELSE UNCHANGED <<closed, disk>>
    /\ IF i + 1 < file_count
       THEN i' = i + 1 /\ pc' = "close"
       ELSE i' = 0 /\ pc' = "return"
    /\ UNCHANGED <<prog, exit_code, failed, reported, attempts, files_created>>
    /\ UNCHANGED <<memory_leaks, leak_count, thread_count, file_count, open_fds>>
    /\ UNCHANGED <<threadVars, memVars, notCombo>>

\* return 0.
ComboExit ==
    /\ prog = "combo" /\ pc = "return"
    /\ pc' = "exited"
    /\ exit_code' = 0
    /\ UNCHANGED <<prog, i, failed, reported, attempts>>
    /\ UNCHANGED <<threadVars, memVars, comboVars, fileVars, notCombo>>

ComboNext ==
    \/ ComboStart \/ ComboMemory \/ ComboThreads \/ ComboFiles
    \/ ComboSustainStep \/ ComboShutdown \/ ComboJoinStep \/ ComboFreeStep
    \/ ComboCloseStep \/ ComboExit

\* ------------------------------------------------------ io_storm_writer.c
\* What fwrite(buffer, 1, CHUNK_SIZE, fp) may return: the full count, or a
\* short count (nothing, or part of the chunk) when the write fails.
FwriteResults == {0, CHUNK_SIZE \div 2, CHUNK_SIZE}

StormFileName == <<"io_storm_test">>

\* buffer = malloc(CHUNK_SIZE); a NULL is reported and main returns 1.
StormAllocBuffer ==
    /\ prog = "io_storm" /\ pc = "start"
    /\ \/ /\ buffer' = "held"
          /\ pc' = "fopen"
          /\ UNCHANGED <<failed, reported, exit_code>>
       \/ /\ failed' = failed \cup {<<"malloc", "setup">>}
          /\ reported' = reported \cup {"Failed to allocate buffer!"}
          /\ pc' = "exited"
          /\ exit_code' = 1
          /\ UNCHANGED buffer
    /\ UNCHANGED <<prog, i, attempts, fp, total_written, fileVars, notStorm>>

\* fp = fopen(temp_filename, "wb"); a NULL is reported, the buffer is freed
\* and main returns 1.
StormOpen ==
    /\ prog = "io_storm" /\ pc = "fopen"
    /\ \/ /\ fp' = "open"
          /\ disk' = disk \cup {StormFileName}
          /\ files_created' = files_created \cup {StormFileName}
          /\ pc' = "normal"
          /\ i' = 0
          /\ UNCHANGED <<failed, reported, exit_code, buffer>>
       \/ /\ failed' = failed \cup {<<"fopen", "setup">>}
          /\ reported' = reported \cup {"Failed to open temp file"}
          /\ buffer' = "freed"
          /\ pc' = "exited"
          /\ exit_code' = 1
          /\ UNCHANGED <<fp, disk, files_created, i>>
    /\ UNCHANGED <<prog, attempts, total_written, notStorm>>

\* One iteration of the phase 1 loop: fwrite's result is discarded.
StormNormalStep ==
    /\ prog = "io_storm" /\ pc = "normal"
    /\ i < StormNormal
    /\ \E written \in FwriteResults :
         failed' = IF written < CHUNK_SIZE
                   THEN failed \cup {<<"fwrite", "baseline">>}
                   ELSE failed
    /\ IF i + 1 < StormNormal
       THEN i' = i + 1 /\ pc' = "normal"
       ELSE i' = 0 /\ pc' = "attack"
    /\ UNCHANGED <<prog, exit_code, reported, attempts, ioVars, fileVars, notStorm>>

\* total_written += written.
StormCount(written) == total_written + written

\* One iteration of the attack loop: whatever fwrite returns is added to
\* total_written and the loop goes on.
StormAttackStep ==
    /\ prog = "io_storm" /\ pc = "attack"
    /\ i < StormIterations
    /\ attempts' = attempts + 1
    /\ \E written \in FwriteResults :
         /\ total_written' = StormCount(written)
         /\ failed' = IF written < CHUNK_SIZE
                      THEN failed \cup {<<"fwrite", "attack">>}
                      ELSE failed
    /\ IF i + 1 < StormIterations
       THEN i' = i + 1 /\ pc' = "attack"
       ELSE i' = 0 /\ pc' = "cooldown"
    /\ UNCHANGED <<prog, exit_code, reported, buffer, fp, fileVars, notStorm>>

\* One iteration of the phase 3 loop; after the last, fclose(fp).
StormCooldownStep ==
    /\ prog = "io_storm" /\ pc = "cooldown"
    /\ i < StormNormal
    /\ \E written \in FwriteResults :
         failed' = IF written < CHUNK_SIZE
                   THEN failed \cup {<<"fwrite", "cooldown">>}
                   ELSE failed
    /\ IF i + 1 < StormNormal
       THEN i' = i + 1 /\ pc' = "cooldown" /\ UNCHANGED fp
       ELSE i' = 0 /\ pc' = "cleanup" /\ fp' = "closed"
    /\ UNCHANGED <<prog, exit_code, reported, attempts, buffer, total_written>>
    /\ UNCHANGED <<fileVars, notStorm>>

\* unlink(temp_filename); free(buffer); return 0.
StormCleanup ==
    /\ prog = "io_storm" /\ pc = "cleanup"
    /\ disk' = disk \ {StormFileName}
    /\ buffer' = "freed"
    /\ pc' = "exited"
    /\ exit_code' = 0
    /\ UNCHANGED <<prog, i, failed, reported, attempts, fp, total_written>>
    /\ UNCHANGED <<files_created, notStorm>>

StormNext ==
    \/ StormAllocBuffer \/ StormOpen \/ StormNormalStep \/ StormAttackStep
    \/ StormCooldownStep \/ StormCleanup

\* --------------------------------------------------------- file_writer.c
WriterFileName == <<"test_output.dat">>

\* fp = fopen(OUTPUT_FILE, "wb"); on NULL perror and return 1.
WriterOpen ==
    /\ prog = "file_writer" /\ pc = "start"
    /\ \/ /\ fp' = "open"
          /\ disk' = disk \cup {WriterFileName}
          /\ files_created' = files_created \cup {WriterFileName}
          /\ pc' = "malloc"
          /\ UNCHANGED <<failed, reported, exit_code>>
       \/ /\ failed' = failed \cup {<<"fopen", "setup">>}
          /\ reported' = reported \cup {"fopen"}
          /\ pc' = "exited"
          /\ exit_code' = 1
          /\ UNCHANGED <<fp, disk, files_created>>
    /\ UNCHANGED <<prog, i, attempts, buffer, total_written, unbVars, notUnbounded>>

\* buffer = malloc(CHUNK_SIZE); on NULL report, fclose and return 1.
WriterAllocBuffer ==
    /\ prog = "file_writer" /\ pc = "malloc"
    /\ \/ /\ buffer' = "held"
          /\ pc' = "write"
          /\ UNCHANGED <<failed, reported, exit_code, fp>>
       \/ /\ failed' = failed \cup {<<"malloc", "setup">>}
          /\ reported' = reported \cup {"malloc failed"}
          /\ fp' = "closed"
          /\ pc' = "exited"
          /\ exit_code' = 1
          /\ UNCHANGED buffer
    /\ UNCHANGED <<prog, i, attempts, total_written, fileVars, unbVars, notUnbounded>>

\* One iteration of while (1): a short fwrite is reported and breaks out of
\* the loop; a full one is counted.
WriterWriteStep ==
    /\ prog = "file_writer" /\ pc = "write"
    /\ count < MaxLoop
    /\ attempts' = attempts + 1
    /\ \E written \in FwriteResults :
         IF written # CHUNK_SIZE
         THEN /\ failed' = failed \cup {<<"fwrite", "attack">>}
              /\ reported' = reported \cup {"Write failed"}
              /\ pc' = "finish"
              /\ UNCHANGED <<total, count>>
         ELSE /\ total' = total + written
              /\ count' = count + 1
              /\ pc' = "write"
              /\ UNCHANGED <<failed, reported>>
    /\ UNCHANGED <<prog, i, exit_code, ioVars, fileVars, children, attempt, sock>>
    /\ UNCHANGED notUnbounded

\* The value main returns after the write loop.
WriterExitCode == 0

\* free(buffer); fclose(fp); return 0.  The output file is left in place.
WriterFinish ==
    /\ prog = "file_writer" /\ pc = "finish"
    /\ buffer' = "freed"
    /\ fp' = "closed"
    /\ pc' = "exited"
    /\ exit_code' = WriterExitCode
    /\ UNCHANGED <<prog, i, failed, reported, attempts, total_written>>
    /\ UNCHANGED <<fileVars, unbVars, notUnbounded>>

WriterNext == WriterOpen \/ WriterAllocBuffer \/ WriterWriteStep \/ WriterFinish

\* ---------------------------------------------------------- memory_hog.c
\* One iteration of while (1): a NULL from malloc is reported and breaks
\* out of the loop; a block is counted and never freed.
HogStep ==
    /\ prog = "memory_hog" /\ pc = "start"
    /\ count < MaxLoop
    /\ attempts' = attempts + 1
    /\ \/ /\ total' = total + HOG_CHUNK_MB * MB
          /\ count' = count + 1
          /\ pc' = "start"
          /\ UNCHANGED <<failed, reported>>
       \/ /\ failed' = failed \cup {<<"malloc", "attack">>}
          /\ reported' = reported \cup {"malloc failed after"}
          /\ pc' = "return"
          /\ UNCHANGED <<total, count>>
    /\ UNCHANGED <<prog, i, exit_code, ioVars, fileVars, children, attempt, sock>>
    /\ UNCHANGED notUnbounded

\* return 1.
HogExit ==
    /\ prog = "memory_hog" /\ pc = "return"
    /\ pc' = "exited"
    /\ exit_code' = 1
    /\ UNCHANGED <<prog, i, failed, reported, attempts>>
    /\ UNCHANGED <<ioVars, fileVars, unbVars, notUnbounded>>

HogNext == HogStep \/ HogExit

\* ----------------------------------------------------------- fork_bomb.c
\* A failed fork treated as terminal (break instead of continue).
ForkAfterFailureBreak == "exited"

\* Where the parent goes after a failed fork: report, sleep(1), continue.
ForkAfterFailure == "retry_sleep"

\* The branch a process takes on the pid that fork returned to it.
ForkRoleIgnoringPid(pid) == "parent"

\* if (pid == 0) { child } else { parent }.
ForkRole(pid) == IF pid = 0 THEN "child" ELSE "parent"

\* pid = fork() in the parent.  On failure: report, then sleep(1) and
\* continue.  On success there is a child, which returns from fork with
\* pid 0, and the parent does count++ and takes its branch.
ForkStep ==
    /\ prog = "fork_bomb" /\ pc = "start"
    /\ attempts < MaxLoop
    /\ attempts' = attempts + 1
    /\ \/ /\ count' = count + 1
          /\ children' = children + 1
          /\ child_pending' = child_pending + 1
          /\ forked' = forked + 1
          /\ tree_depth' = IF tree_depth < 1 THEN 1 ELSE tree_depth
          /\ pc' = IF ForkRole(1) = "parent" THEN "delay" ELSE "exited"
          /\ UNCHANGED <<failed, reported>>
       \/ /\ failed' = failed \cup {<<"fork", "attack">>}
          /\ reported' = reported \cup {"Fork failed after"}
          /\ pc' = ForkAfterFailure
          /\ UNCHANGED <<count, children, forkVars>>
    /\ UNCHANGED <<prog, i, exit_code, ioVars, fileVars, total, attempt, sock>>
    /\ UNCHANGED notFork

\* The parent's sleep(1) after a failure, or usleep(50000) after a
\* success; then the next iteration of while (1).
ForkSleep ==
    /\ prog = "fork_bomb" /\ pc \in {"retry_sleep", "delay"}
    /\ pc' = "start"
    /\ UNCHANGED <<prog, i, exit_code, failed, reported, attempts>>
    /\ UNCHANGED <<ioVars, fileVars, unbVars, notUnbounded>>

\* A child after fork: count++ on its own copy of count, then the test of
\* pid, which is 0 in a child: it goes to sleep(60).  A process that took
\* the other branch would go round the loop and fork a child of its own.
ForkChildBranch ==
    /\ prog = "fork_bomb"
    /\ child_pending > 0
    /\ child_pending' = child_pending - 1
    /\ IF ForkRole(0) = "child"
       THEN UNCHANGED <<children, tree_depth>>
       ELSE children' = children + 1 /\ tree_depth' = 2
    /\ UNCHANGED <<commonVars, ioVars, fileVars, total, count, attempt, sock, forked>>
    /\ UNCHANGED notFork

\* A child in its branch: sleep(60); exit(0).
ForkChildExit ==
    /\ prog = "fork_bomb"
    /\ children > child_pending
    /\ children' = children - 1
    /\ UNCHANGED <<commonVars, ioVars, fileVars, total, count, attempt, sock>>
    /\ UNCHANGED notUnbounded

ForkNext == ForkStep \/ ForkSleep \/ ForkChildBranch \/ ForkChildExit

\* -------------------------------------------------------- network_test.c
\* attempt++; sock = socket(...).  On failure: report, sleep(2), continue.
NetSocket ==
    /\ prog = "network_test" /\ pc = "start"
    /\ attempt < MaxLoop
    /\ attempt' = attempt + 1
    /\ attempts' = attempts + 1
    /\ \/ /\ sock' = sock + 1
          /\ pc' = "connect"
          /\ UNCHANGED <<failed, reported>>
       \/ /\ failed' = failed \cup {<<"socket", "attack">>}
          /\ reported' = reported \cup {"socket() failed"}
          /\ pc' = "sleep2"
          /\ UNCHANGED sock
    /\ UNCHANGED <<prog, i, exit_code, ioVars, fileVars, total, count, children>>
    /\ UNCHANGED notUnbounded

\* inet_pton of the fixed address succeeds; connect; close(sock).  A failed
\* connect is reported.  Either way sleep(3) follows.
NetConnect ==
    /\ prog = "network_test" /\ pc = "connect"
    /\ \/ UNCHANGED <<failed, reported>>
       \/ /\ failed' = failed \cup {<<"connect", "attack">>}
          /\ reported' = reported \cup {"Connection failed"}
    /\ sock' = sock - 1
    /\ pc' = "sleep3"
    /\ UNCHANGED <<prog, i, exit_code, attempts>>
    /\ UNCHANGED <<ioVars, fileVars, total, count, children, attempt, notUnbounded>>

\* sleep(2) or sleep(3); then the next iteration of while (1).
NetSleep ==
    /\ prog = "network_test" /\ pc \in {"sleep2", "sleep3"}
    /\ pc' = "start"
    /\ UNCHANGED <<prog, i, exit_code, failed, reported, attempts>>
    /\ UNCHANGED <<ioVars, fileVars, unbVars, notUnbounded>>

NetNext == NetSocket \/ NetConnect \/ NetSleep

\* -------------------------------------------------------- ml_test_pattern.c
PatternAlphabet == {"-", "0", "1", "2", "3", "4", "5", "6", "x"}
PatternArgs == (StringsUpTo(PatternAlphabet, MaxArgLen) \ {<<>>}) \cup {HugeArg}

\* The number of iterations of the cpu_burst loop of a case.
PatternIterations(p) ==
    CASE p = 1 -> 20 [] p = 2 -> 15 [] p = 4 -> 20 [] p = 5 -> 25 [] OTHER -> 0

\* (i + 1) * 5 * 1024 * 1024 of case 3.
PatternBytes(k) == (k + 1) * 5 * 1024 * 1024

\* pattern = 1; if (argc > 1) pattern = atoi(argv[1]).
PatternParse ==
    /\ prog = "ml_test_pattern" /\ pc = "start"
    /\ \/ /\ argc' = 1 /\ argv1' = <<>>
          /\ pattern' = 1
       \/ \E arg \in PatternArgs :
            /\ argc' = 2 /\ argv1' = arg
            /\ pattern' \in atoi(arg)
    /\ pc' = "switch"
    /\ UNCHANGED <<prog, i, exit_code, failed, reported, attempts>>
    /\ UNCHANGED <<ptrs, mem_ptr, cpu_bursts, printed_total, memVars, notPattern>>

\* switch (pattern): the default case prints the usage and returns 1.
PatternSwitch ==
    /\ prog = "ml_test_pattern" /\ pc = "switch"
    /\ i' = 0
    /\ IF pattern \in {1, 2, 4} THEN
            pc' = "cpu_loop" /\ UNCHANGED <<reported, exit_code>>
       ELSE IF pattern = 3 THEN
            pc' = "leak_loop" /\ UNCHANGED <<reported, exit_code>>
       ELSE IF pattern = 5 THEN
            pc' = "combined_loop" /\ UNCHANGED <<reported, exit_code>>
       ELSE /\ reported' = reported \cup {"Invalid pattern"}
            /\ pc' = "exited"
            /\ exit_code' = 1
    /\ UNCHANGED <<prog, failed, attempts, patVars, memVars, notPattern>>

\* One iteration of the loop of case 1, 2 or 4: cpu_burst, sleep(1).
PatternCpuStep ==
    /\ prog = "ml_test_pattern" /\ pc = "cpu_loop"
    /\ i < PatternIterations(pattern)
    /\ cpu_bursts' = cpu_bursts + 1
    /\ IF i + 1 < PatternIterations(pattern)
       THEN i' = i + 1 /\ pc' = "cpu_loop"
       ELSE i' = 0 /\ pc' = "complete"
    /\ UNCHANGED <<prog, exit_code, failed, reported, attempts>>
    /\ UNCHANGED <<pattern, ptrs, mem_ptr, argc, argv1, printed_total, memVars,
                   notPattern>>

\* The total counting the iterations before this one only.
PatternTotalBefore(k) == ((k * (k + 1)) \div 2) * 5

\* The total of the status line of case 3, in MB: (i+1)*(i+2)/2 * 5.
PatternTotal(k) == (((k + 1) * (k + 2)) \div 2) * 5

\* One iteration of the loop of case 3: the status line with the total is
\* printed, then ptrs[i] = allocate_memory(bytes); a NULL is reported and
\* breaks out of the loop.
PatternLeakStep ==
    /\ prog = "ml_test_pattern" /\ pc = "leak_loop"
    /\ i < PATTERN_SLOTS
    /\ alloc_size' = PatternBytes(i)
    /\ printed_total' = PatternTotal(i)
    /\ attempts' = attempts + 1
    /\ \/ /\ ptrs' = [ptrs EXCEPT ![i] = alloc_size']
          /\ IF i + 1 < PATTERN_SLOTS
             THEN i' = i + 1 /\ pc' = "leak_loop"
             ELSE i' = 0 /\ pc' = "leak_cleanup"
          /\ UNCHANGED <<failed, reported>>
       \/ /\ ptrs' = [ptrs EXCEPT ![i] = Null]
          /\ failed' = failed \cup {<<"malloc", "attack">>}
          /\ reported' = reported \cup {"Memory allocation failed!"}
          /\ i' = 0 /\ pc' = "leak_cleanup"
    /\ UNCHANGED <<prog, exit_code, pattern, mem_ptr, cpu_bursts, argc, argv1>>
    /\ UNCHANGED <<freed, wild_frees, notPattern>>

\* One iteration of the cleanup loop of case 3, which visits all 20 slots.
PatternLeakCleanupStep ==
    /\ prog = "ml_test_pattern" /\ pc = "leak_cleanup"
    /\ i < PATTERN_SLOTS
    /\ \E r \in FreeSlot(ptrs, i) :
         /\ freed' = r[1]
         /\ wild_frees' = r[2]
         /\ IF r[3] THEN pc' = "crashed" /\ UNCHANGED i
            ELSE IF i + 1 < PATTERN_SLOTS
            THEN i' = i + 1 /\ pc' = "leak_cleanup"
            ELSE i' = 0 /\ pc' = "complete"
    /\ UNCHANGED <<prog, exit_code, failed, reported, attempts, alloc_size>>
    /\ UNCHANGED <<patVars, notPattern>>

\* One iteration of the loop of case 5: cpu_burst, and at i == 10 also
\* mem_ptr = allocate_memory(50 MB), whose result is not tested.
PatternCombinedStep ==
    /\ prog = "ml_test_pattern" /\ pc = "combined_loop"
    /\ i < PatternIterations(pattern)
    /\ cpu_bursts' = cpu_bursts + 1
    /\ IF i = 10
       THEN /\ alloc_size' = 50 * 1024 * 1024
            /\ attempts' = attempts + 1
            /\ \/ mem_ptr' = alloc_size' /\ UNCHANGED failed
               \/ /\ mem_ptr' = Null
                  /\ failed' = failed \cup {<<"malloc", "attack">>}
       ELSE UNCHANGED <<alloc_size, attempts, mem_ptr, failed>>
    /\ IF i + 1 < PatternIterations(pattern)
       THEN i' = i + 1 /\ pc' = "combined_loop"
       ELSE i' = 0 /\ pc' = "combined_cleanup"
    /\ UNCHANGED <<prog, exit_code, reported, pattern, ptrs, argc, argv1,
                   printed_total>>
    /\ UNCHANGED <<freed, wild_frees, notPattern>>

\* if (mem_ptr) free(mem_ptr).  The freed block is logged as slot 0.
PatternCombinedCleanup ==
    /\ prog = "ml_test_pattern" /\ pc = "combined_cleanup"
    /\ freed' = IF mem_ptr # Null THEN Append(freed, 0) ELSE freed
    /\ pc' = "complete"
    /\ UNCHANGED <<prog, i, exit_code, failed, reported, attempts>>
    /\ UNCHANGED <<alloc_size, wild_frees, patVars, notPattern>>

\* "Pattern complete!"; return 0.
PatternExit ==
    /\ prog = "ml_test_pattern" /\ pc = "complete"
    /\ pc' = "exited"
    /\ exit_code' = 0
    /\ UNCHANGED <<prog, i, failed, reported, attempts>>
    /\ UNCHANGED <<patVars, memVars, notPattern>>

PatternNext ==
    \/ PatternParse \/ PatternSwitch \/ PatternCpuStep \/ PatternLeakStep
    \/ PatternLeakCleanupStep \/ PatternCombinedStep
    \/ PatternCombinedCleanup \/ PatternExit

\* ------------------------------------------------------ cpu_spike_attack.c
\* The end computed without the scale of clock().
SpikeEndUnscaled(start, duration_sec) == start + duration_sec

\* consume_cpu: end = start + duration_sec * CLOCKS_PER_SEC.
SpikeEnd(start, duration_sec) == start + duration_sec * CLOCKS_PER_SEC

\* One iteration of phase 1: usleep(900000); consume_cpu(0); usleep(100000).
\* consume_cpu(0) sets end to the clock it has just read, so its loop test
\* fails at once.
SpikeBenignStep ==
    /\ prog = "cpu_spike" /\ pc = "start"
    /\ i < SpikeBenign
    /\ burn_end' = SpikeEnd(clock_now, 0)
    /\ benign_done' = benign_done + 1
    /\ IF i + 1 < SpikeBenign
       THEN i' = i + 1 /\ pc' = "start"
       ELSE i' = 0 /\ pc' = "attack"
    /\ UNCHANGED <<prog, exit_code, failed, reported, attempts>>
    /\ UNCHANGED <<clock_now, attack_done, cooldown_done, notSpike>>

\* The head of one iteration of phase 2: consume_cpu(1) reads the clock and
\* computes its end.
SpikeAttackStep ==
    /\ prog = "cpu_spike" /\ pc = "attack"
    /\ i < SpikeAttack
    /\ burn_end' = SpikeEnd(clock_now, 1)
    /\ pc' = "burn"
    /\ UNCHANGED <<prog, i, exit_code, failed, reported, attempts>>
    /\ UNCHANGED <<clock_now, benign_done, attack_done, cooldown_done, notSpike>>

\* while (clock() < end) { for (10000 iterations) ... }: one test of the
\* loop.  A pass of the body uses processor time; when the test fails
\* consume_cpu returns and the iteration of phase 2 is over.
SpikeBurn ==
    /\ prog = "cpu_spike" /\ pc = "burn"
    /\ IF clock_now < burn_end
       THEN /\ \E d \in 1..MaxBurst : clock_now' = clock_now + d
            /\ UNCHANGED <<i, pc, attack_done>>
       ELSE /\ attack_done' = attack_done + 1
            /\ IF i + 1 < SpikeAttack
               THEN i' = i + 1 /\ pc' = "attack"
               ELSE i' = 0 /\ pc' = "cooldown"
            /\ UNCHANGED clock_now
    /\ UNCHANGED <<prog, exit_code, failed, reported, attempts>>
    /\ UNCHANGED <<burn_end, benign_done, cooldown_done, notSpike>>

\* One iteration of phase 3: sleep(1).
SpikeCooldownStep ==
    /\ prog = "cpu_spike" /\ pc = "cooldown"
    /\ i < SpikeCooldown
    /\ cooldown_done' = cooldown_done + 1
    /\ IF i + 1 < SpikeCooldown
       THEN i' = i + 1 /\ pc' = "cooldown"
       ELSE i' = 0 /\ pc' = "return"
    /\ UNCHANGED <<prog, exit_code, failed, reported, attempts>>
    /\ UNCHANGED <<clock_now, burn_end, benign_done, attack_done, notSpike>>

\* return 0.
SpikeExit ==
    /\ prog = "cpu_spike" /\ pc = "return"
    /\ pc' = "exited"
    /\ exit_code' = 0
    /\ UNCHANGED <<prog, i, failed, reported, attempts>>
    /\ UNCHANGED <<spikeVars, notSpike>>

SpikeNext ==
    \/ SpikeBenignStep \/ SpikeAttackStep \/ SpikeBurn \/ SpikeCooldownStep
    \/ SpikeExit

Next ==
    \/ GradualNext \/ LeakNext \/ ComboNext \/ StormNext
    \/ WriterNext \/ HogNext \/ ForkNext \/ NetNext \/ PatternNext
    \/ SpikeNext

Spec == Init /\ [][Next]_vars

\* ------------------------------------------------------- worker threads
\* Spec takes the worker's return as part of the pthread_join that waits for
\* it.  SpecWorkers gives the workers of the two threaded generators steps of
\* their own.  The number of threads the system grants is bounded there:
\* pthread_create fails once MaxWorkers threads exist.
MaxWorkers == 3

\* worker_thread / cpu_consumer_thread: one test of while (keep_running) by
\* worker w.  The worker only reads the flag; it returns NULL when it reads 0
\* and goes round its loop (sleep(1), or the arithmetic loop) otherwise.  A
\* worker runs only while the process is alive.
WorkerPoll(w) ==
    /\ prog \in {"gradual", "combo"}
    /\ pc \notin {"exited", "crashed"}
    /\ w \in threads \ returned
    /\ returned' = IF keep_running = 0 THEN returned \cup {w} ELSE returned
    /\ UNCHANGED <<commonVars, gradVars, threads, keep_running, joined>>
    /\ UNCHANGED <<leakVars, memVars, comboVars, fileVars, ioVars, patVars, unbVars>>
    /\ UNCHANGED <<forkVars, spikeVars>>

Workers == \E w \in 0..(MAX_THREADS - 1) : WorkerPoll(w)

\* pthread_join(threads[i], NULL) blocks until worker i has returned.
JoinWaits == (pc = "join" /\ i \in threads) => i \in returned

\* A step of main of a threaded generator, next to its running workers.
MainWithWorkers ==
    /\ GradualNext \/ ComboNext
    /\ JoinWaits
    /\ Cardinality(threads') <= MaxWorkers

InitWorkers == Init /\ prog \in {"gradual", "combo"}
NextWorkers == MainWithWorkers \/ Workers

\* The scheduler lets main and every worker run again and again.
SpecWorkers ==
    /\ InitWorkers
    /\ [][NextWorkers]_vars
    /\ WF_vars(MainWithWorkers)
    /\ \A w \in 0..(MAX_THREADS - 1) : WF_vars(WorkerPoll(w))

\* The CPU spike simulator alone, which the scheduler lets run again and
\* again.
InitSpike == Init /\ prog = "cpu_spike"
SpecSpike == InitSpike /\ [][SpikeNext]_vars /\ WF_vars(SpikeNext)
\* ================================================================ claims
Range(seq) == {seq[k] : k \in 1..Len(seq)}
NoDuplicates(seq) == Cardinality(Range(seq)) = Len(seq)
LiveSlots(slots) == {k \in DOMAIN slots : slots[k] > 0}
AttackFailures == {f \in failed : f[2] = "attack"}
SetupFailures == {f \in failed : f[2] = "setup"}

\* The bounded generators and the positions of their attack phase.
Bounded == {"gradual", "leak", "combo", "io_storm", "ml_test_pattern"}
AttackPositions ==
    {"attack", "phase2", "vector1", "vector2", "vector3", "leak_loop",
     "combined_loop"}

\* The blocks, threads and descriptors the run has acquired.
AcquiredBlocks ==
    CASE prog = "leak" -> LiveSlots(allocations)
      [] prog = "combo" -> 0..(leak_count - 1)
      [] prog = "ml_test_pattern" /\ pattern = 3 -> LiveSlots(ptrs)
      [] prog = "ml_test_pattern" /\ pattern = 5 ->
             IF mem_ptr # Null THEN {0} ELSE {}
      [] OTHER -> {}

\* C1: in the generators that hold resources (progressive memory leak,
\* combo, ml_test_pattern cases 3 and 5) cleanup never calls free on a slot
\* that no successful acquisition filled, and once main has returned every
\* acquired block, thread and descriptor has been released exactly once.
C1_ReleasedEqualsAcquired ==
    prog \in {"leak", "combo", "ml_test_pattern"} =>
        /\ wild_frees = 0
        /\ NoDuplicates(freed) /\ NoDuplicates(joined) /\ NoDuplicates(closed)
        /\ Range(freed) \subseteq AcquiredBlocks
        /\ pc = "exited" /\ exit_code = 0 =>
              /\ Range(freed) = AcquiredBlocks
              /\ prog = "combo" =>
                    /\ Range(joined) = threads
                    /\ Range(closed) = 0..(file_count - 1)

\* C2: in the gradual fork bomb every handle passed to pthread_join was
\* filled by a successful pthread_create, no handle is joined twice, and
\* when main returns every created thread has been joined.
C2_AllCreatedJoinedOnce ==
    prog = "gradual" =>
        /\ Range(joined) \subseteq threads
        /\ NoDuplicates(joined)
        /\ pc = "exited" => Range(joined) = threads

\* C3: when the file writer ends because fwrite came back short, it has
\* reported the write failure, exits with code 1 and the output file is
\* still on disk.
C3_WriteFailureExitsOne ==
    prog = "file_writer" /\ pc = "exited" /\ <<"fwrite", "attack">> \in failed =>
        /\ "Write failed" \in reported
        /\ exit_code = 1
        /\ WriterFileName \in disk

\* C4: in a bounded generator a failed OS operation of the attack phase is
\* reported and ends the phase: no attack-phase position is reached once an
\* attack-phase operation has failed.
C4_FailureEndsPhase ==
    prog \in Bounded /\ AttackFailures # {} =>
        /\ reported # {}
        /\ pc \notin AttackPositions

\* C5: in the I/O storm generator total_written is CHUNK_SIZE times the
\* number of attack iterations completed, whatever the writes returned:
\* CHUNK_SIZE * i inside the loop and 150 MB after it.
C5_TotalIsChunkTimesIterations ==
    prog = "io_storm" =>
        /\ pc = "attack" => total_written = CHUNK_SIZE * i
        /\ pc \in {"cooldown", "cleanup"} \/ (pc = "exited" /\ exit_code = 0) =>
              total_written = CHUNK_SIZE * StormIterations

\* A run that did not reach normal completion: a setup step failed, the
\* usage text was printed, or an unbounded generator was stopped by the
\* failure it provokes.
Abnormal ==
    \/ SetupFailures # {}
    \/ "Invalid pattern" \in reported
    \/ prog \in {"memory_hog", "file_writer"}

\* C6: a program that returns from main returns 0 exactly when it ran to
\* normal completion, and 1 when an allocation or setup step failed.
C6_ExitCodeTellsCompletion ==
    pc = "exited" =>
        /\ exit_code = 0 <=> ~Abnormal
        /\ SetupFailures # {} \/ prog = "memory_hog" => exit_code = 1

\* C7: in the gradual fork bomb, whatever argv[1] is, once the argument has
\* been processed the configured maximum lies in 5..80, the number of
\* created threads never exceeds it, and every index used on threads[] and
\* thread_ids[] is below it.
C7_ThreadCountBounded ==
    prog = "gradual" /\ pc \notin {"start", "clamp"} =>
        /\ max_threads \in 5..80
        /\ created_threads <= max_threads
        /\ Cardinality(threads) = created_threads
        /\ max_index < max_threads
        /\ Len(thread_ids.vals) <= max_threads

\* C7 witness: an argument above 80 was clamped and all 80 threads exist.
C7_Witness ==
    /\ prog = "gradual" /\ pc = "sustain"
    /\ max_threads = 80 /\ created_threads = 80 /\ max_index = 79

\* C8: when the I/O storm or the combo generator returns 0, no file the
\* run created still exists.
C8_TempFilesRemoved ==
    prog \in {"io_storm", "combo"} /\ pc = "exited" /\ exit_code = 0 =>
        disk \cap files_created = {}

\* C8 witness: the combo returned after some opens failed and others
\* created files.
C8_Witness ==
    /\ prog = "combo" /\ pc = "exited" /\ exit_code = 0
    /\ Cardinality(files_created) >= 3
    /\ <<"open", "attack">> \in failed

\* C9: the k-th successful allocation is k * 5 MB in the progressive memory
\* leak and k * 8 MB in the combo, each request is the previous successful
\* size plus the increment, and the int computation does not overflow.
C9_AllocationSizes ==
    /\ prog = "leak" =>
          /\ \A k \in LiveSlots(allocations) : allocations[k] = (k + 1) * 5 * 1048576
          /\ attempts > 0 /\ pc = "attack" => alloc_size = attempts * 5 * 1048576
    /\ prog = "combo" =>
          /\ \A k \in 0..(leak_count - 1) : memory_leaks[k] = (k + 1) * 8 * 1048576
          /\ alloc_size > 0 =>
                alloc_size \in {leak_count * 8 * 1048576, (leak_count + 1) * 8 * 1048576}
    /\ prog \in {"leak", "combo"} => alloc_size >= 0 /\ alloc_size <= INT_MAX

\* C9 witness: the combo holds five blocks although a malloc failed.
C9_Witness ==
    /\ prog = "combo" /\ leak_count = 5
    /\ <<"malloc", "attack">> \in failed
    /\ memory_leaks[4] = 40 * 1048576

\* C10: the fork bomb and the network test never return from main: a
\* failed fork, socket or connect is reported and followed by the fixed
\* sleep and the next attempt.  The memory hog and the file writer make no
\* attempt after their first failure and go on to return.
C10_StepRule ==
    /\ prog \in {"fork_bomb", "network_test"} =>
          /\ pc' # "exited" /\ exit_code' = 0 - 1
          /\ pc \in {"retry_sleep", "delay", "sleep2", "sleep3"} /\ pc' # pc =>
                pc' = "start"
    /\ prog = "fork_bomb" /\ attempts' = attempts + 1 /\ count' = count =>
          "Fork failed after" \in reported' /\ pc' = "retry_sleep"
    /\ prog = "network_test" /\ attempt' = attempt + 1 /\ sock' = sock =>
          "socket() failed" \in reported' /\ pc' = "sleep2"
    /\ prog = "network_test" /\ pc = "connect" => pc' = "sleep3"
    /\ prog \in {"memory_hog", "file_writer"} /\ AttackFailures # {} =>
          /\ attempts' = attempts
          /\ reported # {}
          /\ pc' = "exited"

C10_OnlyForkAndNetworkRetry == [][C10_StepRule]_vars

\* C10 witness: the fork bomb forked again after a failed fork.
C10_Witness ==
    /\ prog = "fork_bomb" /\ pc = "delay"
    /\ <<"fork", "attack">> \in failed
    /\ count >= 2 /\ attempts > count


\* C11: in the generators that spawn worker threads keep_running goes from 1
\* to 0 once, set by main after the sustain phase and only read by the
\* workers, and once it is cleared every worker returns, every pthread_join
\* completes and the program terminates: after the flag is cleared main does
\* not end by a fault, and when main has returned every created worker has
\* returned.
C11_WorkersReturnAndJoin ==
    prog \in {"gradual", "combo"} =>
        /\ keep_running \in {0, 1}
        /\ keep_running = 0 =>
               pc \in {"join", "free_ids", "free", "close", "return", "exited",
                       "crashed"}
        /\ returned # {} => keep_running = 0
        /\ keep_running = 0 => pc # "crashed"
        /\ pc = "exited" => returned = threads

\* C12: a bounded generator with a sustain phase releases what it holds only
\* after that phase has finished: while the attack or the sustain phase runs
\* no block has been freed, no thread joined or stopped, no descriptor closed
\* and no file unlinked; and the resources of one kind are released in the
\* order they were acquired in, which is the order of their slots.
Increasing(seq) == \A a, b \in 1..Len(seq) : a < b => seq[a] < seq[b]
BeforeCleanup ==
    pc \in {"start", "clamp", "alloc_ids", "phase1", "phase2", "attack",
            "vector1", "vector2", "vector3", "sustain"}
C12_ReleaseAfterSustainInOrder ==
    prog \in {"gradual", "leak", "combo"} =>
        /\ BeforeCleanup =>
               /\ freed = <<>> /\ joined = <<>> /\ closed = <<>>
               /\ wild_frees = 0
               /\ returned = {}
               /\ keep_running = 1
               /\ disk = files_created
        /\ Increasing(freed) /\ Increasing(joined) /\ Increasing(closed)
C12_Witness ==
    /\ prog = "combo" /\ pc = "exited"
    /\ Len(joined) >= 2 /\ Len(freed) >= 2 /\ Len(closed) >= 2

\* C13: the CPU spike simulator always terminates with exit code 0 after
\* exactly 5 benign iterations, then 15 attack iterations of one second of
\* processor time each, then 3 cooldown iterations (23 steps in all); no
\* attack iteration runs before the benign phase has ended or after the
\* cooldown phase has started.
SpikeOrder ==
    /\ (attack_done > 0 \/ pc = "burn") => benign_done = 5
    /\ cooldown_done > 0 => attack_done = 15 /\ pc # "burn"
    /\ clock_now >= attack_done * CLOCKS_PER_SEC
    /\ benign_done <= 5 /\ attack_done <= 15 /\ cooldown_done <= 3
    /\ pc = "exited" =>
           /\ exit_code = 0
           /\ benign_done = 5 /\ attack_done = 15 /\ cooldown_done = 3
           /\ benign_done + attack_done + cooldown_done = 23
C13_SpikeSchedule == []SpikeOrder /\ <>(pc = "exited" /\ exit_code = 0)
C13_Witness ==
    /\ prog = "cpu_spike" /\ pc = "exited" /\ exit_code = 0
    /\ attack_done = 15 /\ clock_now > 15 * CLOCKS_PER_SEC

\* C14: ml_test_pattern takes one optional numeric argument: with no
\* argument it runs pattern 1; with a number from 1 to 5 it runs that pattern
\* and exits 0; with anything else (0, a negative number, a number above 5,
\* text that is not a number) it burns no CPU, allocates nothing, prints the
\* usage text and exits 1.
StripZeros(s) ==
    LET first == CHOOSE k \in 1..(Len(s) + 1) :
                     /\ \A j \in 1..(k - 1) : s[j] = "0"
                     /\ k <= Len(s) => s[k] # "0"
    IN SubSeq(s, first, Len(s))
IsNumber(s) == Len(s) > 0 /\ \A k \in 1..Len(s) : s[k] \in Digits
Selects(s, p) ==
    /\ IsNumber(s)
    /\ Len(StripZeros(s)) = 1
    /\ DigitVal(StripZeros(s)[1]) = p
C14_SelectorValidation ==
    prog = "ml_test_pattern" /\ pc # "start" =>
        IF argc = 1 THEN pattern = 1 /\ (pc = "exited" => exit_code = 0)
        ELSE IF \E p \in 1..5 : Selects(argv1, p)
        THEN /\ Selects(argv1, pattern)
             /\ pc = "exited" => exit_code = 0
        ELSE /\ cpu_bursts = 0 /\ attempts = 0
             /\ pc \in {"switch", "exited"}
             /\ pc = "exited" => exit_code = 1 /\ "Invalid pattern" \in reported

\* C15 as stated: the running total reported on each iteration equals the
\* sum of the sizes acquired so far: in the progressive memory leak
\* total_allocated after k successful allocations is 5 MB * k(k+1)/2, and in
\* pattern 3 of ml_test_pattern the total printed at iteration i is the sum
\* of the sizes the program holds after that iteration.
RECURSIVE SumSlots(_, _)
SumSlots(slots, S) ==
    IF S = {} THEN 0
    ELSE LET k == CHOOSE x \in S : TRUE IN slots[k] + SumSlots(slots, S \ {k})
AcquiredBytes(slots) == SumSlots(slots, LiveSlots(slots))
Triangle(k) == (k * (k + 1)) \div 2
LeakTotalRule ==
    prog = "leak" =>
        /\ total_allocated = AcquiredBytes(allocations)
        /\ total_allocated = (5 * MB) * Triangle(Cardinality(LiveSlots(allocations)))
        /\ Cardinality(LiveSlots(allocations)) = 25 => total_allocated = 1625 * MB
PatternLeakReported ==
    prog = "ml_test_pattern" /\ pattern = 3 /\ attempts > 0
C15_TotalIsSumAcquired ==
    /\ LeakTotalRule
    /\ PatternLeakReported => printed_total * MB = AcquiredBytes(ptrs)

\* C15, amended: the leak's total is as stated; the total printed by pattern
\* 3 at iteration i (1-based) is 5 MB * (1 + ... + i), the sum of the sizes
\* requested up to and including iteration i: the line is printed before
\* the allocation is made, so at an iteration whose allocation fails the
\* total counts a block that was not acquired.
C15_TotalIsSumRequested ==
    /\ LeakTotalRule
    /\ PatternLeakReported =>
           /\ printed_total = 5 * Triangle(attempts)
           /\ printed_total * MB =
                  AcquiredBytes(ptrs) +
                      (IF <<"malloc", "attack">> \in failed THEN alloc_size ELSE 0)
C15_Witness ==
    /\ PatternLeakReported
    /\ <<"malloc", "attack">> \in failed
    /\ attempts = 3 /\ printed_total = 30
    /\ AcquiredBytes(ptrs) = 15 * MB

\* C16: in the fork bomb only the original parent calls fork: every child
\* sleeps and exits without forking, so the process tree has depth 1; the
\* number of live children grows by at most one per iteration of the
\* parent's loop; and the parent's count is the number of forks that
\* succeeded in the parent: a failed fork does not increment it.
C16_StepRule ==
    prog = "fork_bomb" =>
        /\ tree_depth' <= 1
        /\ children' <= children + 1
        /\ children' = children + 1 => pc = "start" /\ attempts' = attempts + 1
        /\ count' = forked'
        /\ count' \in {count, count + 1}
        /\ count' = count + 1 => children' = children + 1 /\ pc' = "delay"
        /\ <<"fork", "attack">> \in failed' =>
               count' < attempts'
        /\ pc = "start" /\ pc' = "retry_sleep" => count' = count
C16_OnlyParentForks == [][C16_StepRule]_vars
C16_Witness ==
    /\ prog = "fork_bomb"
    /\ count = 2 /\ attempts = 3 /\ <<"fork", "attack">> \in failed
    /\ children = 1 /\ child_pending = 0 /\ tree_depth = 1
====
